---- MODULE Spec2Model ----
(***************************************************************************)
(* A model of @atmina/formbuilder (src/src/formbuilder.tsx): the recursive *)
(* proxy built by createFormBuilder, the path composition of               *)
(* prependCurrentPath, and the operations a field handle binds to the      *)
(* react-hook-form engine.  JavaScript values are tagged records; the      *)
(* identity of an object is its allocation index.                          *)
(***************************************************************************)
EXTENDS Integers, Sequences, FiniteSets, TLC

VARIABLES
    heap,      \* the handles (proxies) made by createFormBuilder, by identity
    nfn,       \* how many operation closures have been allocated
    last,      \* the latest operation of the caller and what it returned
    first,     \* history: <<handle, prop>> -> the object its first access returned
    calls,     \* the engine primitives called by the latest operation, in order
    engines,   \* the react-hook-form instances useForm has returned, by identity
    inputs     \* the rendered <input> elements: handle -> name bound, text shown

vars == <<heap, nfn, last, first, calls, engines, inputs>>

----------------------------------------------------------------------------
(* Bounds of the model. *)

\* the longest path (in segments) an untyped walk materialises a handle at
MaxDepth == 2
\* the most handles an untyped walk allocates
MaxHandles == 3
\* the most operation closures an untyped walk allocates
MaxFns == 2
\* the most distinct property names one run caches values under
MaxNames == 2
\* the longest list of relative names composed under a path
MaxList == 2
\* the most elements the field array holds
MaxElems == 2
\* the most handles a form of registered inputs allocates
MaxFormHandles == 5
\* the most handles a form that watches and sets values allocates
MaxWatchHandles == 4
\* the most operation closures a form that watches and sets values allocates
MaxWatchFns == 2
\* the most handles a form that binds the field array allocates
MaxArrayHandles == 5
\* the most operation closures a form that binds the field array allocates
MaxArrayFns == 2
\* the most handles a form that queries element keys allocates
MaxKeyHandles == 5
\* the most operation closures a form that queries element keys allocates
MaxKeyFns == 1
\* the most handles a form that uses the further operations allocates
MaxOpsHandles == 3
\* the most operation closures a form that uses the further operations allocates
MaxOpsFns == 2
\* the most handles a form that sets values and errors allocates
MaxPassHandles == 2
\* the most operation closures a form that sets values and errors allocates
MaxPassFns == 2
\* the most handles a form that queries the state of fields allocates
MaxStateHandles == 5
\* the most operation closures a form that queries the state of fields allocates
MaxStateFns == 1
\* the most engine instances the renders of a component see
MaxEngines == 2
\* the most handles the trees of a component that renders again allocate
MaxRenderHandles == 3
\* the most operation closures the trees of a component that renders again allocate
MaxRenderFns == 2
\* the most handles a form that rearranges the elements of its list allocates
MaxMovesHandles == 6
\* the most element ids the engine generates for a list that is rearranged
MaxIds == 2
\* the most handles a component that uses every operation allocates
MaxConfineHandles == 2
\* the most operation closures a component that uses every operation allocates
MaxConfineFns == 1

----------------------------------------------------------------------------
(* JavaScript values. *)

Undefined == [t |-> "undefined"]
Null == [t |-> "null"]
Str(s) == [t |-> "string", s |-> s]
Bool(b) == [t |-> "boolean", b |-> b]
List(xs) == [t |-> "array", xs |-> xs]
Obj(m) == [t |-> "object", m |-> m]
HandleRef(i) == [t |-> "handle", id |-> i]
Fn(n, h, op) == [t |-> "fn", id |-> n, h |-> h, op |-> op]
\* a member every plain object inherits from Object.prototype
Native(name) == [t |-> "native", name |-> name]
\* methods.control of engine instance e
Control(e) == [t |-> "control", e |-> e]

\* object spread {...base, ...over}: a later member replaces an earlier one
Spread(base, over) ==
    [k \in DOMAIN base \cup DOMAIN over |->
        IF k \in DOMAIN over THEN over[k] ELSE base[k]]

\* the well-known symbol Symbol.toPrimitive, as a property key
ToPrimitive == "@@toPrimitive"

\* the cases of the switch in the proxy's get trap that build an operation
OperationCases ==
    {ToPrimitive, "$useFieldArray", "$useController", "$useWatch", "$useState",
     "$setValue", "$setError", "$discriminate"}

\* the names the get trap treats specially
ReservedNames == OperationCases \cup {"$key"}

\* the property names `{}` answers through its prototype chain
ObjectPrototype ==
    {"constructor", "toString", "valueOf", "hasOwnProperty", "__proto__"}

\* prop.toString(): a string key is itself, a symbol prints as Symbol(...)
PropToString(prop) ==
    IF prop = ToPrimitive THEN "Symbol(Symbol.toPrimitive)" ELSE prop

RECURSIVE Join(_)
\* path.join('.')
Join(path) ==
    IF Len(path) = 0 THEN ""
    ELSE IF Len(path) = 1 THEN path[1]
    ELSE path[1] \o "." \o Join(Tail(path))

\* an absent key argument
NoKey == Undefined

----------------------------------------------------------------------------
(* The form-state engine (react-hook-form), by the contract the adapter    *)
(* consumes.  Form values are a flat map from the path of a leaf (its      *)
(* segments) to the string it holds; an engine name is the dotted string.  *)

RECURSIVE Split(_, _)
\* name.split('.'), with `cur` the segment read so far
Split(s, cur) ==
    IF Len(s) = 0 THEN <<cur>>
    ELSE IF Head(s) = "." THEN <<cur>> \o Split(Tail(s), "")
    ELSE Split(Tail(s), cur \o Head(s))

RECURSIVE Compact(_)
\* the engine drops the empty segments of a name
Compact(path) ==
    IF Len(path) = 0 THEN <<>>
    ELSE IF path[1] = "" THEN Compact(Tail(path))
    ELSE <<path[1]>> \o Compact(Tail(path))

\* the engine's parse of a dotted name into segments
StringToPath(name) == Compact(Split(name, ""))

IsPrefix(p, q) == Len(p) <= Len(q) /\ SubSeq(q, 1, Len(p)) = p

\* the leaves of `values` at or below path p
LeavesUnder(values, p) == {q \in DOMAIN values : IsPrefix(p, q)}

\* get(values, path): a leaf's string, the object below an inner path, or undefined
GetPath(values, p) ==
    IF p \in DOMAIN values THEN Str(values[p])
    ELSE IF LeavesUnder(values, p) = {} THEN Undefined
    ELSE Obj([r \in {SubSeq(q, Len(p) + 1, Len(q)) : q \in LeavesUnder(values, p)}
                |-> values[p \o r]])

\* set(values, path, string): the leaf replaces whatever was at, below or above it
SetPath(values, p, s) ==
    LET kept == {q \in DOMAIN values : ~IsPrefix(p, q) /\ ~IsPrefix(q, p)} IN
    [q \in kept \cup {p} |-> IF q = p THEN s ELSE values[q]]

\* the engine reads a value by name; no name means the entire shape
EngineGet(values, name) ==
    IF name = Undefined THEN Obj(values)
    ELSE IF name.t = "array"
    THEN List([i \in DOMAIN name.xs |-> GetPath(values, StringToPath(name.xs[i]))])
    ELSE GetPath(values, StringToPath(name.s))

\* the engine instance useForm returns for these default values
NewEngine(defaults) ==
    [values |-> defaults, defaultValues |-> defaults, fields |-> <<>>,
     ids |-> <<>>, nextId |-> 0, errors |-> <<>>]

\* register(name, options): the field is known under the name from now on, and
\* the descriptor carries the name the input element is bound under
RhfRegister(eng, name, options) ==
    [eng |-> [eng EXCEPT !.fields = Spread(@, name.s :> options)],
     ret |-> [t |-> "registration", name |-> name.s, options |-> options]]

\* the engine's parse of the name it sets a value under: a name without
\* separators is one key
KeyPath(name) ==
    IF Len(Split(name, "")) = 1 THEN <<name>> ELSE StringToPath(name)

\* setValue(name, value)
RhfSetValue(eng, name, value) ==
    [eng EXCEPT !.values = SetPath(@, KeyPath(name.s), value.s)]

\* useWatch({name, control, ...}): the current value(s) under the name
RhfUseWatch(engs, args) ==
    EngineGet(engs[args.control.e].values, args.name)

\* how many elements the array at path p holds
ArrayLength(values, p) ==
    Cardinality({q[Len(p) + 1] : q \in {l \in LeavesUnder(values, p) : Len(l) > Len(p)}})

\* the members of the element at path p, by member name
ElementAt(values, p) ==
    [m \in {Join(SubSeq(q, Len(p) + 1, Len(q))) : q \in LeavesUnder(values, p)}
        |-> Str(values[p \o StringToPath(m)])]

\* generateId()
GenerateId(n) == "id" \o ToString(n)

\* useFieldArray({name, keyName, control, ...}): the elements, each with its
\* stable id under keyName, and the mutation operations
RhfUseFieldArray(eng, args) ==
    LET name == args.name.s
        p == StringToPath(name)
        mounted == name \in DOMAIN eng.ids
        n == IF mounted THEN Len(eng.ids[name]) ELSE ArrayLength(eng.values, p)
        ids == IF mounted THEN eng.ids[name]
               ELSE [i \in 1..n |-> GenerateId(eng.nextId + i)]
    IN
    [eng |-> IF mounted THEN eng
             ELSE [eng EXCEPT !.ids = Spread(@, name :> ids), !.nextId = @ + n],
     ret |-> [fields |-> [i \in 1..n |->
                            Spread(ElementAt(eng.values, Append(p, ToString(i - 1))),
                                   args.keyName.s :> Str(ids[i]))],
              append |-> [t |-> "rhf", op |-> "append", name |-> name,
                          e |-> args.control.e]]]

\* append(element) of a mounted field array
RhfAppend(eng, name, element) ==
    LET p == StringToPath(name)
        at == Append(p, ToString(Len(eng.ids[name])))
        added == [q \in {Append(at, m) : m \in DOMAIN element} |-> element[q[Len(q)]]]
    IN
    [eng EXCEPT !.values = Spread(@, added),
                !.ids = Spread(@, name :> Append(@[name], GenerateId(eng.nextId + 1))),
                !.nextId = @ + 1]

\* the registered fields whose `required` rule fails on submission
Invalid(eng) ==
    {n \in DOMAIN eng.fields :
        /\ eng.fields[n].t = "object"
        /\ "required" \in DOMAIN eng.fields[n].m
        /\ GetPath(eng.values, StringToPath(n)) \in {Undefined, Str("")}}

\* handleSubmit's validation: the errors are those of the invalid fields, each
\* kept at the path of its field and told by its type
RhfValidate(eng) ==
    [eng EXCEPT !.errors = [q \in {StringToPath(n) : n \in Invalid(eng)} |-> "required"]]

\* the dirty marks: "true" at every path whose value is not the default one
DirtyFields(eng) ==
    [q \in {p \in DOMAIN eng.values :
               p \notin DOMAIN eng.defaultValues \/ eng.values[p] # eng.defaultValues[p]}
        |-> "true"]

\* useFormState({name, control, ...}): the nested errors and dirty marks
RhfUseFormState(eng, args) ==
    [errors |-> eng.errors, dirtyFields |-> DirtyFields(eng)]

\* get(object, name): what a nested object holds at a dotted name, nothing
\* for a name without segments
RhfGet(object, name) ==
    IF StringToPath(name) = <<>> THEN Undefined
    ELSE GetPath(object, StringToPath(name))

----------------------------------------------------------------------------
(* createFormBuilder: one handle. *)

currentPath(h) == Join(heap[h].path)

\* a handle bound to the first engine instance whatever it is given
NewHandleFirstEngine(methods, path, key) ==
    [methods |-> 1, path |-> path, key |-> key, cache |-> <<>>]

\* what createFormBuilder(methods, path, key) returns before any access
NewHandle(methods, path, key) ==
    [methods |-> methods, path |-> path, key |-> key, cache |-> <<>>]

\* cache[prop] on the plain object `cache`
CacheLookup(cache, prop) ==
    IF prop \in DOMAIN cache THEN cache[prop]
    ELSE IF prop \in ObjectPrototype THEN Native(prop)
    ELSE Undefined

\* a get trap that forgets to store what it built
CacheStoreNothing(cache, prop, v) == cache

\* a get trap that stores what it built under a second name as well
CacheStoreTwice(cache, prop, v) ==
    [p \in DOMAIN cache \cup {prop, prop \o "'"} |->
        IF p \in {prop, prop \o "'"} THEN v ELSE cache[p]]

\* cache[prop] = useCached
CacheStore(cache, prop, v) ==
    [p \in DOMAIN cache \cup {prop} |-> IF p = prop THEN v ELSE cache[p]]

\* the path of the child handle the default case builds
ChildPath(path, prop) == Append(path, PropToString(prop))

\* key ?? currentPath
KeyOrPath(key, cp) == IF key \in {Undefined, Null} THEN Str(cp) ELSE key

\* history: the object the first access of handle[prop] returned
Remember(h, prop, v) ==
    IF <<h, prop>> \in DOMAIN first \/ v.t \notin {"handle", "fn"} THEN first
    ELSE Spread(first, <<h, prop>> :> v)

\* the proxy's get trap: handle[prop]
Get(h, prop) ==
    LET useCached == CacheLookup(heap[h].cache, prop) IN
    /\ calls' = <<>>
    /\ UNCHANGED <<engines, inputs>>
    /\ IF useCached # Undefined
       THEN /\ last' = [op |-> "get", h |-> h, prop |-> prop, val |-> useCached]
            /\ first' = Remember(h, prop, useCached)
            /\ UNCHANGED <<heap, nfn>>
       ELSE IF prop = "$key"
       THEN /\ last' = [op |-> "get", h |-> h, prop |-> prop,
                        val |-> KeyOrPath(heap[h].key, currentPath(h))]
            /\ UNCHANGED <<heap, nfn, first>>
       ELSE IF prop \in OperationCases
       THEN LET f == Fn(nfn + 1, h, prop) IN
            /\ nfn' = nfn + 1
            /\ heap' = [heap EXCEPT ![h].cache = CacheStore(@, prop, f)]
            /\ last' = [op |-> "get", h |-> h, prop |-> prop, val |-> f]
            /\ first' = Remember(h, prop, f)
       ELSE LET c == HandleRef(Len(heap) + 1) IN
            /\ heap' = Append([heap EXCEPT ![h].cache = CacheStore(@, prop, c)],
                              NewHandle(heap[h].methods,
                                        ChildPath(heap[h].path, prop), NoKey))
            /\ last' = [op |-> "get", h |-> h, prop |-> prop, val |-> c]
            /\ first' = Remember(h, prop, c)
            /\ UNCHANGED nfn

\* the usage error of the register function
RootError == "Cannot call register at the root."
NoError == "no error"

\* a register function without the check for the root
AtRootNever(cp) == FALSE

\* currentPath.length === 0
AtRoot(cp) == Len(cp) = 0

\* a register function that drops the caller's options
RegisterArgsNoOptions(cp, options) == <<Str(cp), Undefined>>

\* a register function that names the field by the last segment of its path
RegisterArgsLastSegment(cp, options) ==
    <<Str(IF StringToPath(cp) = <<>> THEN cp
          ELSE StringToPath(cp)[Len(StringToPath(cp))]), options>>

\* the arguments of methods.register(currentPath, options)
RegisterArgs(cp, options) == <<Str(cp), options>>

\* the handle called as a function: handle(options); the descriptor is spread
\* on an <input>, which then shows the engine's value under the descriptor's name
Invoke(h, options) ==
    LET cp == currentPath(h)
        e == heap[h].methods
    IN
    /\ UNCHANGED <<heap, nfn, first>>
    /\ IF AtRoot(cp)
       THEN /\ last' = [op |-> "invoke", h |-> h, options |-> options,
                        threw |-> RootError, val |-> Undefined]
            /\ calls' = <<>>
            /\ UNCHANGED <<engines, inputs>>
       ELSE LET args == RegisterArgs(cp, options)
                r == RhfRegister(engines[e], args[1], args[2])
                shown == GetPath(engines[e].values, StringToPath(r.ret.name))
            IN
            /\ calls' = <<[prim |-> "register", e |-> e, args |-> args]>>
            /\ engines' = [engines EXCEPT ![e] = r.eng]
            /\ inputs' = Spread(inputs, h :> [name |-> r.ret.name, text |-> shown])
            /\ last' = [op |-> "invoke", h |-> h, options |-> options,
                        threw |-> NoError, val |-> r.ret]

\* what String(Object) prints
NativeSource(name) == "function Object() { [native code] }"

\* String(v): v[Symbol.toPrimitive] through the get trap, then the call
Stringify(v) ==
    /\ calls' = <<>>
    /\ UNCHANGED <<engines, inputs>>
    /\ IF v.t = "handle"
       THEN LET h == v.id
                useCached == CacheLookup(heap[h].cache, ToPrimitive)
            IN
            /\ last' = [op |-> "String", of |-> v, val |-> Str(currentPath(h))]
            /\ IF useCached # Undefined
               THEN UNCHANGED <<heap, nfn, first>>
               ELSE LET f == Fn(nfn + 1, h, ToPrimitive) IN
                    /\ nfn' = nfn + 1
                    /\ heap' = [heap EXCEPT ![h].cache = CacheStore(@, ToPrimitive, f)]
                    /\ first' = Remember(h, ToPrimitive, f)
       ELSE /\ last' = [op |-> "String", of |-> v, val |-> Str(NativeSource(v.name))]
            /\ UNCHANGED <<heap, nfn, first>>

\* a composition without the case of the empty own path
prependCurrentPathNoRootCase(cp, name) ==
    IF name \in {Undefined, Null} THEN Str(cp)
    ELSE IF name.t = "array"
    THEN List([i \in DOMAIN name.xs |-> cp \o "." \o name.xs[i]])
    ELSE Str(cp \o "." \o name.s)

\* prependCurrentPath(currentPath, name)
prependCurrentPath(cp, name) ==
    IF Len(cp) = 0
    THEN IF name \in {Undefined, Null} THEN Str("") ELSE name
    ELSE IF name.t = "string" THEN Str(cp \o "." \o name.s)
    ELSE IF name.t = "array"
    THEN List([i \in DOMAIN name.xs |-> cp \o "." \o name.xs[i]])
    ELSE Str(cp)

\* a $useWatch that forwards the caller's name as given
WatchNameAsGiven(cp, name) ==
    IF name \notin {Undefined, Null} THEN name
    ELSE IF cp = "" THEN Undefined
    ELSE Str(cp)

\* the name $useWatch hands to useWatch
WatchName(cp, name) ==
    IF name \notin {Undefined, Null} THEN prependCurrentPath(cp, name)
    ELSE IF cp = "" THEN Undefined
    ELSE Str(cp)

\* ({name, ...rest} = {}) : the members of props other than name
Rest(props) ==
    IF props = Undefined THEN <<>>
    ELSE [k \in DOMAIN props.m \ {"name"} |-> props.m[k]]

\* ({name, ...rest} = {}) : the name member of props
NameOf(props) ==
    IF props = Undefined \/ "name" \notin DOMAIN props.m THEN Undefined
    ELSE props.m.name

\* the object $useWatch passes to useWatch
WatchArgs(cp, control, props) ==
    Spread([name |-> WatchName(cp, NameOf(props)), control |-> control], Rest(props))

\* handle.$useWatch(props)
UseWatch(f, props) ==
    LET args == WatchArgs(currentPath(f.h), Control(heap[f.h].methods), props) IN
    /\ calls' = <<[prim |-> "useWatch", args |-> args]>>
    /\ last' = [op |-> "call", fn |-> f, args |-> props,
                val |-> RhfUseWatch(engines, args)]
    /\ UNCHANGED <<heap, nfn, first, engines, inputs>>

\* a $setValue that names the field by the last segment of its path
SetValueArgsLastSegment(cp, value) ==
    <<Str(IF StringToPath(cp) = <<>> THEN cp
          ELSE StringToPath(cp)[Len(StringToPath(cp))]), value>>

\* the arguments of methods.setValue(currentPath, value)
SetValueArgs(cp, value) == <<Str(cp), value>>

\* an <input> bound under the name shows the value the engine was given
Shown(e, name, text) ==
    [h \in DOMAIN inputs |->
        IF heap[h].methods = e /\ StringToPath(inputs[h].name) = StringToPath(name)
        THEN [inputs[h] EXCEPT !.text = Str(text)]
        ELSE inputs[h]]

\* handle.$setValue(value)
SetValue(f, value) ==
    LET e == heap[f.h].methods
        args == SetValueArgs(currentPath(f.h), value)
    IN
    /\ calls' = <<[prim |-> "setValue", e |-> e, args |-> args]>>
    /\ engines' = [engines EXCEPT ![e] = RhfSetValue(@, args[1], args[2])]
    /\ inputs' = Shown(e, args[1].s, args[2].s)
    /\ last' = [op |-> "call", fn |-> f, args |-> value, val |-> Undefined,
                threw |-> NoError]
    /\ UNCHANGED <<heap, nfn, first>>

\* the object $useFieldArray passes to useFieldArray
FieldArrayArgs(cp, control, props) ==
    Spread([name |-> Str(cp), keyName |-> Str("$key"), control |-> control],
           IF props = Undefined THEN <<>> ELSE props.m)

\* element handles numbered from one
ElementHandleOneBased(methods, path, field, i) ==
    NewHandle(methods, Append(path, ToString(i + 1)),
              IF "$key" \in DOMAIN field THEN field["$key"] ELSE Undefined)

\* ({$key}, i) => createFormBuilder(methods, [...path, i.toString()], $key)
ElementHandle(methods, path, field, i) ==
    NewHandle(methods, Append(path, ToString(i)),
              IF "$key" \in DOMAIN field THEN field["$key"] ELSE Undefined)

\* a $useFieldArray that hands out the children cached under the indices
\* when there are such
UseFieldArrayFromCache(f, props) ==
    LET h == f.h
        args == FieldArrayArgs(currentPath(h), Control(heap[h].methods), props)
        r == RhfUseFieldArray(engines[args.control.e], args)
        n == Len(r.ret.fields)
        cached == \A i \in 1..n : ToString(i - 1) \in DOMAIN heap[h].cache
    IN
    /\ calls' = <<[prim |-> "useFieldArray", args |-> args]>>
    /\ engines' = [engines EXCEPT ![args.control.e] = r.eng]
    /\ heap' = IF cached THEN heap
               ELSE heap \o [i \in 1..n |->
                               ElementHandle(heap[h].methods, heap[h].path,
                                             r.ret.fields[i], i - 1)]
    /\ last' = [op |-> "call", fn |-> f, args |-> props,
                val |-> [t |-> "fieldArray",
                         fields |-> [i \in 1..n |->
                                       IF cached THEN heap[h].cache[ToString(i - 1)]
                                       ELSE HandleRef(Len(heap) + i)],
                         append |-> r.ret.append]]
    /\ UNCHANGED <<nfn, first, inputs>>

\* handle.$useFieldArray(props)
UseFieldArray(f, props) ==
    LET h == f.h
        e == heap[h].methods
        args == FieldArrayArgs(currentPath(h), Control(e), props)
        r == RhfUseFieldArray(engines[args.control.e], args)
        n == Len(r.ret.fields)
    IN
    /\ calls' = <<[prim |-> "useFieldArray", args |-> args]>>
    /\ engines' = [engines EXCEPT ![args.control.e] = r.eng]
    /\ heap' = heap \o [i \in 1..n |->
                          ElementHandle(heap[h].methods, heap[h].path,
                                        r.ret.fields[i], i - 1)]
    /\ last' = [op |-> "call", fn |-> f, args |-> props,
                val |-> [t |-> "fieldArray",
                         fields |-> [i \in 1..n |-> HandleRef(Len(heap) + i)],
                         append |-> r.ret.append]]
    /\ UNCHANGED <<nfn, first, inputs>>

\* the user replaces the text of a rendered <input>; its onChange handler
\* commits the text under the name the input was registered with
UserType(h, text) ==
    LET e == heap[h].methods IN
    /\ h \in DOMAIN inputs
    /\ engines' = [engines EXCEPT ![e].values =
                      SetPath(@, StringToPath(inputs[h].name), text)]
    /\ inputs' = [inputs EXCEPT ![h].text = Str(text)]
    /\ last' = [op |-> "type", h |-> h, text |-> text]
    /\ calls' = <<>>
    /\ UNCHANGED <<heap, nfn, first>>

\* the user submits the form: handleSubmit validates, then hands the values
\* to the submit handler
Submit(e) ==
    /\ last' = [op |-> "submit", e |-> e,
                data |-> IF Invalid(engines[e]) = {} THEN Obj(engines[e].values)
                         ELSE Undefined]
    /\ calls' = <<>>
    /\ engines' = [engines EXCEPT ![e] = RhfValidate(@)]
    /\ UNCHANGED <<heap, nfn, first, inputs>>

\* append(element), the mutation operation a field-array call returned
ArrayAppend(e, name, element) ==
    /\ name \in DOMAIN engines[e].ids
    /\ engines' = [engines EXCEPT ![e] = RhfAppend(@, name, element)]
    /\ last' = [op |-> "append", e |-> e, name |-> name, element |-> element]
    /\ calls' = <<>>
    /\ UNCHANGED <<heap, nfn, first, inputs>>

----------------------------------------------------------------------------
(* The runs. *)

\* the keys of form data an untyped walk reads child handles at
ChildKeys == {"a", "", "constructor", "$setFocus"}

\* every property key an untyped walk accesses
Props == ReservedNames \cup ChildKeys

\* the keys a caller reads when it walks paths and registers fields
PathProps == (ChildKeys \ {"$setFocus"}) \cup {"$key"}

\* the options a caller passes to the register function
RegisterOptions == {Undefined, Obj([required |-> Bool(TRUE)])}

\* the default actions of the list elements
Actions == <<"frobnicate", "skedaddle", "tergiversate", "absquatulate">>

\* defaultValues: {firstName: "John", list: [{action: ...}, ...]} with n elements
FormDefaults(n) ==
    [q \in {<<"firstName">>} \cup {<<"list", ToString(i), "action">> : i \in 0..(n - 1)}
        |-> IF Len(q) = 1 THEN "John" ELSE Actions[CHOOSE i \in 1..n : ToString(i - 1) = q[2]]]

\* the allocation stays within the bounds of the run
Within(maxHandles, maxFns, maxDepth) ==
    /\ Len(heap') <= maxHandles
    /\ nfn' <= maxFns
    /\ \A h \in 1..Len(heap') : Len(heap'[h].path) <= maxDepth

Init ==
    /\ heap = <<NewHandle(1, <<>>, NoKey)>>
    /\ nfn = 0
    /\ last = [op |-> "none"]
    /\ first = <<>>
    /\ calls = <<>>
    /\ engines = <<NewEngine(FormDefaults(1))>>
    /\ inputs = <<>>

\* walking the tree: child access, registration and stringification
Next ==
    \/ \E h \in 1..Len(heap), prop \in PathProps :
          Get(h, prop) /\ Within(MaxHandles, MaxFns, MaxDepth)
    \/ \E h \in 1..Len(heap), options \in RegisterOptions : Invoke(h, options)
    \/ \E h \in 1..Len(heap) :
          Stringify(HandleRef(h)) /\ Within(MaxHandles, MaxFns, MaxDepth)
    \/ /\ last.op = "get"
       /\ last.val.t = "native"
       /\ Stringify(last.val)

Spec == Init /\ [][Next]_vars

\* the property names some handle holds a cached value under
CachedNames == UNION {DOMAIN heap[h].cache : h \in 1..Len(heap)}

\* the caller's program reads at most MaxNames distinct cached names
Readable(prop) ==
    \/ prop \in CachedNames \cup ObjectPrototype \cup {"$key"}
    \/ Cardinality(CachedNames) < MaxNames

\* property access alone, over every property name
AccessNext ==
    \E h \in 1..Len(heap), prop \in Props :
        Readable(prop) /\ Get(h, prop) /\ Within(MaxHandles, MaxFns, MaxDepth)

SpecAccess == Init /\ [][AccessNext]_vars

\* one application of prependCurrentPath to the inputs the run was given
Compose ==
    /\ last.op = "input"
    /\ last' = [op |-> "prependCurrentPath", own |-> last.own, name |-> last.name,
                val |-> prependCurrentPath(last.own, last.name)]
    /\ UNCHANGED <<heap, nfn, first, calls, engines, inputs>>

RECURSIVE SeqsUpTo(_, _)
\* the sequences over S of length at most n
SeqsUpTo(S, n) ==
    IF n = 0 THEN {<<>>}
    ELSE LET shorter == SeqsUpTo(S, n - 1) IN
         shorter \cup {Append(q, x) : q \in shorter, x \in S}

\* the own paths and relative names path composition is applied to
OwnPaths == {"", "a", "a.b", "list.0"}
RelSegments == {"x", "y", ""}
RelNames ==
    {Undefined} \cup {Str(x) : x \in RelSegments}
        \cup {List(xs) : xs \in SeqsUpTo(RelSegments, MaxList)}

ComposeInit ==
    /\ heap = <<NewHandle(1, <<>>, NoKey)>>
    /\ nfn = 0
    /\ first = <<>>
    /\ calls = <<>>
    /\ engines = <<NewEngine(FormDefaults(1))>>
    /\ inputs = <<>>
    /\ \E own \in OwnPaths, name \in RelNames :
          last = [op |-> "input", own |-> own, name |-> name]

\* path composition as a pure function of its two inputs
SpecCompose == ComposeInit /\ [][Compose]_vars

\* the form's data shape {firstName: string, '': string, list: {action: string}[]}:
\* the child keys its type offers at a path
TypedKeys(path) ==
    IF path = <<>> THEN {"firstName", "", "list"}
    ELSE IF path = <<"list">> THEN {ToString(i) : i \in 0..(MaxElems - 1)}
    ELSE IF Len(path) = 2 /\ path[1] = "list" THEN {"action"}
    ELSE {}

\* the paths of the shape that hold a string
IsLeaf(path) ==
    path \in {<<"firstName">>, <<"">>} \/ (Len(path) = 3 /\ path[1] = "list")

\* the operations the form's components use at a path
TypedOps(path) ==
    IF path = <<"list">> THEN {"$useFieldArray"}
    ELSE IF IsLeaf(path) THEN {"$useWatch", "$setValue"}
    ELSE {"$useWatch"}

\* the props the form's components pass to $useWatch at a path
WatchProps(path) ==
    {Undefined, Obj([exact |-> Bool(TRUE)])}
        \cup {Obj([name |-> Str(k)]) : k \in (TypedKeys(path) \ {""}) \cup {"action"}}
        \cup (IF path = <<>>
              THEN {Obj([name |-> List(<<"firstName", "list">>)]),
                    Obj([name |-> Null, exact |-> Bool(TRUE)])}
              ELSE IF IsLeaf(path) THEN {}
              ELSE {Obj([name |-> List(<<"0", "action">>), exact |-> Bool(TRUE)])})

\* the texts a user leaves in an input
Texts == {"Joe", ""}

\* the texts a component sets
SetTexts == {"Joe"}

\* the operation closures the caller has obtained
Closures ==
    {heap[h].cache[p] : <<h, p>> \in
        {hp \in (1..Len(heap)) \X OperationCases :
            /\ hp[2] \in DOMAIN heap[hp[1]].cache
            /\ heap[hp[1]].cache[hp[2]].t = "fn"}}

\* the form data of the engine the handle h is bound to
ValuesOf(h) == engines[heap[h].methods].values

\* the handle addresses a string the form data holds
HoldsText(h) == heap[h].path \in DOMAIN ValuesOf(h)

FormInit ==
    /\ heap = <<NewHandle(1, <<>>, NoKey)>>
    /\ nfn = 0
    /\ last = [op |-> "none"]
    /\ first = <<>>
    /\ calls = <<>>
    /\ inputs = <<>>
    /\ \E n \in 0..(MaxElems - 1) : engines = <<NewEngine(FormDefaults(n))>>

\* a component reads, from a handle, a child handle under one of the keys or
\* one of the operations ops
TypedGet(keys, ops, maxHandles, maxFns) ==
    \E h \in 1..Len(heap) :
       \E prop \in (TypedKeys(heap[h].path) \cap keys) \cup (TypedOps(heap[h].path) \cap ops) :
          Get(h, prop) /\ Within(maxHandles, maxFns, MaxDepth + 1)

\* a component renders the input of a field, one input per field
Register ==
    \E h \in 1..Len(heap), options \in RegisterOptions :
       /\ HoldsText(h)
       /\ \A g \in DOMAIN inputs : heap[g].path = heap[h].path => g = h
       /\ Invoke(h, options)

\* a component calls a $useWatch it has obtained
WatchCall ==
    \E f \in Closures :
       /\ f.op = "$useWatch"
       /\ \E props \in WatchProps(heap[f.h].path) : UseWatch(f, props)

\* a component calls a $setValue it has obtained, on a member of the form or
\* on an element the list holds
SetValueCall ==
    \E f \in Closures :
       /\ f.op = "$setValue"
       /\ Len(heap[f.h].path) = 1 \/ HoldsText(f.h)
       /\ \E text \in SetTexts : SetValue(f, Str(text))

\* a component calls a $useFieldArray it has obtained
FieldArrayCall ==
    \E f \in Closures :
       /\ f.op = "$useFieldArray"
       /\ UseFieldArray(f, Undefined)
       /\ Within(MaxArrayHandles, MaxArrayFns, MaxDepth + 1)

\* the user replaces the content of an input
Type == \E h \in DOMAIN inputs, text \in Texts : UserType(h, text)

\* a component appends an element through the append of a bound field array
AppendElement ==
    \E name \in DOMAIN engines[1].ids :
       /\ Len(engines[1].ids[name]) < MaxElems
       /\ ArrayAppend(1, name, [action |-> "Joe"])

\* every member name of the shape
AllKeys == UNION {TypedKeys(p) : p \in {<<>>, <<"list">>, <<"list", "0">>}}

\* a form whose components watch and set the members and the first element
WatchNext ==
    \/ TypedGet(AllKeys \ {ToString(i) : i \in 1..MaxElems},
                {"$useWatch", "$setValue"}, MaxWatchHandles, MaxWatchFns)
    \/ WatchCall
    \/ SetValueCall

SpecWatch == FormInit /\ [][WatchNext]_vars

\* a form whose components register inputs; the user types and submits
FormNext ==
    TypedGet(AllKeys, {}, MaxFormHandles, MaxFormHandles) \/ Register \/ Type \/ Submit(1)

SpecForm == FormInit /\ [][FormNext]_vars

\* a form whose components bind the field array, append to it and watch
\* its elements
ArrayNext ==
    \/ TypedGet({"list"}, {"$useFieldArray", "$useWatch"}, MaxArrayHandles, MaxArrayFns)
    \/ FieldArrayCall
    \/ AppendElement
    \/ WatchCall

SpecArray == FormInit /\ [][ArrayNext]_vars

----------------------------------------------------------------------------
(* A form whose components bind the field array with options of their own *)
(* and query element keys.                                                 *)

\* the options objects a component passes to $useFieldArray
FieldArrayProps ==
    {Undefined,
     Obj([shouldUnregister |-> Bool(TRUE)]),
     Obj([keyName |-> Str("id")]),
     Obj([name |-> Str("firstName"), shouldUnregister |-> Bool(TRUE)])}

\* a component calls a $useFieldArray it has obtained, with options
FieldArrayCallWith ==
    \E f \in Closures, props \in FieldArrayProps :
       /\ f.op = "$useFieldArray"
       /\ UseFieldArray(f, props)
       /\ Within(MaxKeyHandles, MaxKeyFns, MaxDepth + 1)

\* a component reads the $key of a handle
KeyQuery == \E h \in 1..Len(heap) : Get(h, "$key")

KeysNext ==
    \/ TypedGet({"list", "0", "action"}, {"$useFieldArray"}, MaxKeyHandles, MaxKeyFns)
    \/ FieldArrayCallWith
    \/ KeyQuery

SpecKeys == FormInit /\ [][KeysNext]_vars

----------------------------------------------------------------------------
(* The further operations of a handle: $useController, $setError and       *)
(* $discriminate, and the engine primitives they are bound to.             *)

\* useController({name, control, ...}): the binding of the field of that name
RhfUseController(eng, args) ==
    [t |-> "controller", name |-> args.name, control |-> args.control]

\* setError(name, error, options): the error is kept under the name
RhfSetError(eng, name, error, options) ==
    [eng EXCEPT !.errors = SetPath(@, StringToPath(name.s), error.m.type.s)]

\* watch(name): the current value under the name
RhfWatch(eng, name) == EngineGet(eng.values, name)

\* a $useController that binds the entire form
ControllerArgsRootName(cp, control, props) ==
    Spread([name |-> Str(""), control |-> control],
           IF props = Undefined THEN <<>> ELSE props.m)

\* the object $useController passes to useController
ControllerArgs(cp, control, props) ==
    Spread([name |-> Str(cp), control |-> control],
           IF props = Undefined THEN <<>> ELSE props.m)

\* handle.$useController(props)
UseController(f, props) ==
    LET args == ControllerArgs(currentPath(f.h), Control(heap[f.h].methods), props) IN
    /\ calls' = <<[prim |-> "useController", args |-> args]>>
    /\ last' = [op |-> "call", fn |-> f, args |-> props,
                val |-> RhfUseController(engines[args.control.e], args)]
    /\ UNCHANGED <<heap, nfn, first, engines, inputs>>

\* a $setError that drops the caller's options
SetErrorArgsNoOptions(cp, value, options) == <<Str(cp), value, Undefined>>

\* the arguments of methods.setError(currentPath, value, options)
SetErrorArgs(cp, value, options) == <<Str(cp), value, options>>

\* handle.$setError(value, options)
SetError(f, value, options) ==
    LET e == heap[f.h].methods
        args == SetErrorArgs(currentPath(f.h), value, options)
    IN
    /\ calls' = <<[prim |-> "setError", e |-> e, args |-> args]>>
    /\ engines' = [engines EXCEPT ![e] = RhfSetError(@, args[1], args[2], args[3])]
    /\ last' = [op |-> "call", fn |-> f, args |-> <<value, options>>,
                val |-> Undefined, threw |-> NoError]
    /\ UNCHANGED <<heap, nfn, first, inputs>>

\* handle.$setValue(value) or handle.$setError(value, options) when the
\* engine's primitive raises err: nothing catches it
Rejected(f, given, err) ==
    LET e == heap[f.h].methods
        cp == currentPath(f.h)
    IN
    /\ calls' = <<[prim |-> SubSeq(f.op, 2, Len(f.op)), e |-> e,
                   args |-> IF f.op = "$setValue" THEN SetValueArgs(cp, given[1])
                            ELSE SetErrorArgs(cp, given[1], given[2]),
                   raised |-> err]>>
    /\ last' = [op |-> "call", fn |-> f,
                args |-> IF f.op = "$setValue" THEN given[1] ELSE given,
                val |-> Undefined, threw |-> err]
    /\ UNCHANGED <<heap, nfn, first, engines, inputs>>

DiscriminateNameAsGiven(cp, fieldName) == Str(fieldName)

\* the name $discriminate hands to methods.watch
DiscriminateName(cp, fieldName) == prependCurrentPath(cp, Str(fieldName))

\* handle.$discriminate(fieldName): the value watched and the receiver the
\* get trap was entered with when it built the closure
Discriminate(f, fieldName) ==
    LET e == heap[f.h].methods
        name == DiscriminateName(currentPath(f.h), fieldName)
    IN
    /\ calls' = <<[prim |-> "watch", e |-> e, args |-> <<name>>]>>
    /\ last' = [op |-> "call", fn |-> f, args |-> fieldName,
                val |-> <<RhfWatch(engines[e], name), HandleRef(f.h)>>]
    /\ UNCHANGED <<heap, nfn, first, engines, inputs>>

\* the keys a component reads child handles at
OpsKeys == {"firstName", ""}

\* the options objects a component passes to $useController
ControllerProps ==
    {Undefined,
     Obj([shouldUnregister |-> Bool(TRUE)]),
     Obj([name |-> Str("other"), shouldUnregister |-> Bool(TRUE)])}

\* the errors a component sets and the options it sets them with
ErrorOptions == {Undefined, Obj([shouldFocus |-> Bool(TRUE)])}
CustomError == Obj([type |-> Str("custom")])

\* the options a component passes to $setFocus
FocusOptions == {Obj([shouldSelect |-> Bool(TRUE)])}

\* what an engine primitive raises when it rejects a call
EngineErrors == {"engine: invalid path"}

\* the field names a component discriminates by
DiscriminantNames == {"firstName", "type"}

\* a component reads a child handle, or one of the operations ops, of a handle
OpsGet(keys, ops, maxHandles, maxFns) ==
    \E h \in 1..Len(heap), prop \in keys \cup ops :
       Get(h, prop) /\ Within(maxHandles, maxFns, MaxDepth)

ControllerCall ==
    \E f \in Closures, props \in ControllerProps :
       f.op = "$useController" /\ UseController(f, props)

SetCall ==
    \E f \in Closures, text \in SetTexts :
       f.op = "$setValue" /\ SetValue(f, Str(text))

SetErrorCall ==
    \E f \in Closures, options \in ErrorOptions :
       f.op = "$setError" /\ SetError(f, CustomError, options)

RejectedCall ==
    \E f \in Closures, err \in EngineErrors, options \in ErrorOptions :
       \/ f.op = "$setValue" /\ Rejected(f, <<Str("Joe")>>, err)
       \/ f.op = "$setError" /\ Rejected(f, <<CustomError, options>>, err)

DiscriminateCall ==
    \E f \in Closures, fieldName \in DiscriminantNames :
       f.op = "$discriminate" /\ Discriminate(f, fieldName)

\* a component calls what it read under $setFocus
FocusCall ==
    \E h \in 1..Len(heap), options \in FocusOptions :
       /\ heap[h].path # <<>>
       /\ heap[h].path[Len(heap[h].path)] = "$setFocus"
       /\ Invoke(h, options)

\* the object $useState passes to useFormState
UseStateArgsPropsLast(cp, control, props) ==
    Spread([control |-> control, name |-> Str(cp)],
           IF props = Undefined THEN <<>> ELSE props.m)

UseStateArgs(cp, control, props) ==
    Spread(IF props = Undefined THEN <<>> ELSE props.m,
           [control |-> control, name |-> Str(cp)])

\* handle.$useState(props)
UseState(f, props) ==
    LET cp == currentPath(f.h)
        args == UseStateArgs(cp, Control(heap[f.h].methods), props)
        state == RhfUseFormState(engines[args.control.e], args)
    IN
    /\ calls' = <<[prim |-> "useFormState", args |-> args]>>
    /\ last' = [op |-> "call", fn |-> f, args |-> props,
                val |-> [errors |-> RhfGet(state.errors, cp),
                         dirty |-> RhfGet(state.dirtyFields, cp)]]
    /\ UNCHANGED <<heap, nfn, first, engines, inputs>>

\* the options objects a component passes to $useState
StateProps ==
    {Undefined,
     Obj([disabled |-> Bool(FALSE)]),
     Obj([name |-> Str("list"), exact |-> Bool(TRUE)])}

\* the members a component that queries the state reads handles at
StateKeys == {"firstName", "list", "0", "action"}

StateGet ==
    \E h \in 1..Len(heap) :
       \E prop \in (TypedKeys(heap[h].path) \cap StateKeys) \cup {"$useState"} :
          Get(h, prop) /\ Within(MaxStateHandles, MaxStateFns, MaxDepth + 1)

StateCall ==
    \E f \in Closures, props \in StateProps :
       f.op = "$useState" /\ UseState(f, props)

\* a component renders the input of a required field, one input per field
RegisterRequired ==
    \E h \in 1..Len(heap) :
       /\ HoldsText(h)
       /\ \A g \in DOMAIN inputs : heap[g].path = heap[h].path => g = h
       /\ Invoke(h, Obj([required |-> Bool(TRUE)]))

\* the user clears an input
Clear == \E h \in DOMAIN inputs : UserType(h, "")

\* a form whose components render inputs and query the state of fields
StateNext ==
    \/ StateGet
    \/ RegisterRequired
    \/ Clear
    \/ Submit(1)
    \/ StateCall

SpecState == FormInit /\ [][StateNext]_vars

\* a form that discriminates by a field and sets values
DiscriminateNext ==
    \/ OpsGet(OpsKeys, {"$discriminate", "$setValue"}, MaxPassHandles, MaxPassFns)
    \/ SetCall
    \/ DiscriminateCall

SpecDiscriminate == FormInit /\ [][DiscriminateNext]_vars

\* a form that binds controlled components
ControllerNext ==
    \/ OpsGet(OpsKeys, {"$useController"}, MaxOpsHandles, MaxOpsFns)
    \/ ControllerCall

SpecController == FormInit /\ [][ControllerNext]_vars

\* a form that reads $setFocus and calls it
FocusNext ==
    \/ OpsGet(OpsKeys \cup {"$setFocus"}, {}, MaxOpsHandles, MaxOpsFns)
    \/ FocusCall

SpecFocus == FormInit /\ [][FocusNext]_vars

\* a form that sets values and errors
PassNext ==
    \/ OpsGet(OpsKeys, {"$setValue", "$setError"}, MaxPassHandles, MaxPassFns)
    \/ SetCall
    \/ SetErrorCall
    \/ RejectedCall

SpecPass == FormInit /\ [][PassNext]_vars

----------------------------------------------------------------------------
(* useFormBuilder: the renders of the component that owns the form.        *)

\* the members of what useForm returns
FormMembers ==
    {"register", "handleSubmit", "watch", "getValues", "setValue", "setError",
     "setFocus", "reset", "formState", "control"}

\* useForm(props): the result of engine instance e, whose members belong to it
UseFormReturn(e) ==
    [name \in FormMembers |->
        IF name = "control" THEN Control(e) ELSE [t |-> "member", e |-> e, name |-> name]]

\* the root handles useFormBuilder has derived so far
Roots == {h \in 1..Len(heap) : heap[h].path = <<>>}

\* the value useMemo keeps: the root handle derived last
Memo == CHOOSE h \in Roots : \A g \in Roots : g <= h

\* a useMemo that derives anew in every render
DepsSameNever(kept, methods) == FALSE

\* useMemo's comparison of the dependencies [methods] it kept with the new ones
DepsSame(kept, methods) == kept = methods

\* a hook that returns the root handle alone
ReturnedFieldsOnly(fields, methods) == [fields |-> fields]

\* {fields, ...methods}
Returned(fields, methods) == Spread([fields |-> fields], methods)

\* one render of useFormBuilder in which useForm returns the instance e: the
\* one of the render before, or a new one
Render(e) ==
    LET same == DepsSame(heap[Memo].methods, e)
        fields == IF same THEN Memo ELSE Len(heap) + 1
    IN
    /\ engines' = IF e > Len(engines) THEN Append(engines, NewEngine(FormDefaults(1)))
                  ELSE engines
    /\ heap' = IF same THEN heap ELSE Append(heap, NewHandle(e, <<>>, NoKey))
    /\ last' = [op |-> "render", methods |-> e,
                val |-> Returned(HandleRef(fields), UseFormReturn(e))]
    /\ calls' = <<>>
    /\ UNCHANGED <<nfn, first, inputs>>

Rerender ==
    \E e \in 1..(Len(engines) + 1) :
       /\ Render(e)
       /\ Len(engines') <= MaxEngines
       /\ Len(heap') <= MaxRenderHandles

\* a component that renders again and again, reads handles and operations of
\* the trees it was given, and calls them
RenderNext ==
    \/ Rerender
    \/ OpsGet({"firstName"}, {"$setValue"}, MaxRenderHandles, MaxRenderFns)
    \/ SetCall

SpecRender == Init /\ [][RenderNext]_vars

\* a component that reads children, operations, the key and the
\* stringification hook of its handles, and sets values in between
FrameNext ==
    \/ OpsGet({"firstName", "$key"}, {ToPrimitive, "$setValue"}, MaxOpsHandles, MaxOpsFns)
    \/ SetCall

SpecFrame == FormInit /\ [][FrameNext]_vars

----------------------------------------------------------------------------
(* Mutations of a bound field array, each followed by the render that calls *)
(* $useFieldArray again.                                                    *)

\* insert(at, element), move(from, to) and remove(at) of a mounted field
\* array: the elements and their ids are rearranged together
RhfArrayMutate(eng, name, m) ==
    LET p == StringToPath(name)
        n == Len(eng.ids[name])
        pairs == [i \in 1..n |->
                    [el |-> ElementAt(eng.values, Append(p, ToString(i - 1))),
                     id |-> eng.ids[name][i]]]
        Remove(s, i) == SubSeq(s, 1, i - 1) \o SubSeq(s, i + 1, Len(s))
        Insert(s, i, x) == SubSeq(s, 1, i - 1) \o <<x>> \o SubSeq(s, i, Len(s))
        new == IF m.kind = "remove" THEN Remove(pairs, m.at + 1)
               ELSE IF m.kind = "move"
               THEN Insert(Remove(pairs, m.from + 1), m.to + 1, pairs[m.from + 1])
               ELSE Insert(pairs, m.at + 1,
                           [el |-> [k \in DOMAIN m.element |-> Str(m.element[k])],
                            id |-> GenerateId(eng.nextId + 1)])
        kept == {q \in DOMAIN eng.values : ~IsPrefix(p, q)}
        at(i) == Append(p, ToString(i - 1))
        leaves == UNION {{at(i) \o StringToPath(k) : k \in DOMAIN new[i].el} : i \in 1..Len(new)}
        index(q) == CHOOSE i \in 1..Len(new) : ToString(i - 1) = q[Len(p) + 1]
    IN
    [eng EXCEPT
        !.values = [q \in kept \cup leaves |->
                      IF q \in kept THEN eng.values[q]
                      ELSE new[index(q)].el[Join(SubSeq(q, Len(p) + 2, Len(q)))].s],
        !.ids = Spread(@, name :> [i \in 1..Len(new) |-> new[i].id]),
        !.nextId = IF m.kind = "insert" THEN @ + 1 ELSE @]

\* the elements the array under the name holds, in order
ElementsOf(eng, name) ==
    [i \in 1..Len(eng.ids[name]) |->
        ElementAt(eng.values, Append(StringToPath(name), ToString(i - 1)))]

\* the mutations a component makes of an array of n elements when `made` ids
\* were generated so far; a new element brings an action that is not `taken`
Mutations(n, taken, made) ==
    {[kind |-> "remove", at |-> i] : i \in 0..(n - 1)}
      \cup {[kind |-> "move", from |-> i, to |-> j] : i, j \in 0..(n - 1)}
      \cup (IF n < MaxElems /\ made < MaxIds
            THEN {[kind |-> "insert", at |-> i, element |-> [action |-> t]] :
                     i \in 0..n, t \in {"Joe"} \ taken}
            ELSE {})

\* a component calls a mutation operation that the latest $useFieldArray call
\* returned; `before` keeps what that call had rendered
ArrayMutate ==
    /\ \/ last.op = "call" /\ last.fn.op = "$useFieldArray"
       \/ last.op = "mutate"
    /\ LET from == IF last.op = "mutate" THEN last.from ELSE last
           name == IF last.op = "mutate" THEN last.name ELSE calls[1].args.name.s
           e == heap[from.fn.h].methods
           now == ElementsOf(engines[e], name)
           before == IF last.op = "mutate" THEN last.before ELSE now
       IN
       \E m \in Mutations(Len(now),
                            {now[i].action.s : i \in 1..Len(now)}
                               \cup {before[i].action.s : i \in 1..Len(before)},
                            engines[e].nextId) :
          /\ engines' = [engines EXCEPT ![e] = RhfArrayMutate(@, name, m)]
          /\ last' = [op |-> "mutate", m |-> m, from |-> from, name |-> name,
                      before |-> before]
          /\ calls' = <<>>
          /\ UNCHANGED <<heap, nfn, first, inputs>>

\* a component binds the field array, with the key field name left alone or
\* replaced
MovesCall ==
    \E f \in Closures, props \in {Undefined, Obj([keyName |-> Str("id")])} :
       /\ f.op = "$useFieldArray"
       /\ UseFieldArray(f, props)
       /\ Within(MaxMovesHandles, MaxKeyFns, MaxDepth + 1)

\* a form whose components bind the field array and rearrange its elements
MovesNext ==
    \/ TypedGet({"list"}, {"$useFieldArray"}, MaxMovesHandles, MaxKeyFns)
    \/ MovesCall
    \/ ArrayMutate

SpecMoves == FormInit /\ [][MovesNext]_vars

\* a component that uses every operation of the handles it reads
ConfineNext ==
    \/ OpsGet(OpsKeys, OperationCases \ {ToPrimitive}, MaxConfineHandles, MaxConfineFns)
    \/ \E h \in 1..Len(heap) : Invoke(h, Obj([required |-> Bool(TRUE)]))
    \/ WatchCall
    \/ DiscriminateCall
    \/ SetCall
    \/ SetErrorCall
    \/ ControllerCall
    \/ StateCall
    \/ \E f \in Closures, props \in FieldArrayProps :
          /\ f.op = "$useFieldArray"
          /\ UseFieldArray(f, props)
          /\ Within(MaxConfineHandles, MaxConfineFns, MaxDepth)

SpecConfine == Init /\ [][ConfineNext]_vars

----------------------------------------------------------------------------
(* The claims. *)

RootHandle == 1

RECURSIVE Walk(_, _)
\* the value successive property access along p hands out, starting from v
Walk(v, p) ==
    IF Len(p) = 0 THEN v
    ELSE IF v.t # "handle" THEN Undefined
    ELSE Walk(CacheLookup(heap[v.id].cache, p[1]), Tail(p))

\* the operation names of the handle, as the specification lists them
SpecReservedNames == ReservedNames \cup {"$setFocus"}

\* C1: for every non-empty sequence p of segments, what child access along p
\* from the root hands out stringifies to the segments of p joined by '.'
C1_StringifyJoinsPath ==
    last.op = "String" =>
        \A p \in SeqsUpTo(ChildKeys \ SpecReservedNames, MaxDepth) \ {<<>>} :
            Walk(HandleRef(RootHandle), p) = last.of => last.val = Str(Join(p))

\* C2: invoking the root handle throws the usage error, whatever the options,
\* and register is not called
C2_RootInvokeThrows ==
    (last.op = "invoke" /\ heap[last.h].path = <<>>) =>
        /\ last.threw = RootError
        /\ calls = <<>>

\* the root was invoked with options
C2_Witness ==
    /\ last.op = "invoke"
    /\ heap[last.h].path = <<>>
    /\ last.options # Undefined
    /\ last.threw = RootError

\* C3 as stated: invoking a handle raises the usage error if and only if its
\* path-so-far is the empty sequence; otherwise register is called exactly once
\* with the dotted path and the caller's options, and its descriptor returned
C3_ThrowsIffRoot ==
    last.op = "invoke" =>
        LET name == Join(heap[last.h].path) IN
        /\ last.threw = RootError <=> heap[last.h].path = <<>>
        /\ heap[last.h].path # <<>> =>
              /\ calls = <<[prim |-> "register", e |-> heap[last.h].methods,
                            args |-> <<Str(name), last.options>>]>>
              /\ last.val = [t |-> "registration", name |-> name,
                             options |-> last.options]

\* C3 amended: the usage error is raised if and only if the dotted path is the
\* empty string; otherwise register is called exactly once with the dotted
\* path and the caller's options, and its descriptor is returned
C3_ThrowsIffEmptyName ==
    last.op = "invoke" =>
        LET name == Join(heap[last.h].path) IN
        /\ last.threw = RootError <=> name = ""
        /\ name # "" =>
              /\ calls = <<[prim |-> "register", e |-> heap[last.h].methods,
                            args |-> <<Str(name), last.options>>]>>
              /\ last.val = [t |-> "registration", name |-> name,
                             options |-> last.options]
              /\ name \in DOMAIN engines[heap[last.h].methods].fields

\* a handle two segments below the root was invoked with options
C3_Witness ==
    /\ last.op = "invoke"
    /\ Len(heap[last.h].path) = 2
    /\ last.options # Undefined
    /\ last.threw = NoError
    /\ Len(calls) = 1

\* C4: on one handle, accessing an operation name or a child key again returns
\* the very value its first access returned
C4_SameReference ==
    (last.op = "get" /\ <<last.h, last.prop>> \in DOMAIN first) =>
        last.val = first[<<last.h, last.prop>>]

\* an operation closure is handed out again after a later one was allocated
C4_Witness ==
    /\ last.op = "get"
    /\ last.val.t = "fn"
    /\ last.val.id < nfn
    /\ last.val = first[<<last.h, last.prop>>]

\* C5: every key that is no operation name yields the child handle at
\* path-so-far + [key]
C5_OtherKeysAreChildren ==
    (last.op = "get" /\ last.prop \notin SpecReservedNames) =>
        /\ last.val.t = "handle"
        /\ heap[last.val.id].path = Append(heap[last.h].path, last.prop)

\* C6: path composition is total and yields, case by case, what the
\* specification lists
C6_ComposeCases ==
    /\ last.op = "input" => ENABLED Compose
    /\ last.op = "prependCurrentPath" =>
          LET own == last.own
              rel == last.name
          IN
          /\ (own = "" /\ rel = Undefined) => last.val = Str("")
          /\ (own = "" /\ rel # Undefined) => last.val = rel
          /\ (own # "" /\ rel.t = "string") =>
                last.val = Str(own \o "." \o rel.s)
          /\ (own # "" /\ rel.t = "array") =>
                /\ last.val.t = "array"
                /\ Len(last.val.xs) = Len(rel.xs)
                /\ \A i \in 1..Len(rel.xs) :
                      last.val.xs[i] = own \o "." \o rel.xs[i]
          /\ (own # "" /\ rel = Undefined) => last.val = Str(own)

\* the list ["x","y"] composed under "a.b"
C6_Witness ==
    /\ last.op = "prependCurrentPath"
    /\ last.own = "a.b"
    /\ last.name = List(<<"x", "y">>)
    /\ last.val = List(<<"a.b.x", "a.b.y">>)

\* the latest operation is a call of the $useWatch of a handle
WatchCalled == last.op = "call" /\ last.fn.op = "$useWatch"

\* rel, a segment or a list of segments, under the dotted path own
Under(own, rel) ==
    IF rel.t = "array" THEN List([i \in DOMAIN rel.xs |-> own \o "." \o rel.xs[i]])
    ELSE Str(own \o "." \o rel.s)

\* what the watch primitive is to be called with by a handle at path P whose
\* caller gave props, when `root` tells whether P counts as empty
WatchContract(P, props, root) ==
    LET name == NameOf(props)
        given == name \notin {Undefined, Null}
    IN
    /\ Len(calls) = 1
    /\ calls[1].prim = "useWatch"
    /\ calls[1].args.name =
          IF given THEN (IF root THEN name ELSE Under(Join(P), name))
          ELSE IF root THEN Undefined
          ELSE Str(Join(P))
    /\ \A k \in DOMAIN Rest(props) : calls[1].args[k] = props.m[k]
    /\ (given /\ ~root) => calls[1].args.name # name

\* C7 as stated: $useWatch on a handle with own path P calls the watch
\* primitive with the composed path when a name is given, with P when none is
\* given and P is a non-empty sequence, and with the sentinel when none is
\* given and P is the empty sequence; the other options pass through
C7_WatchName ==
    WatchCalled =>
        WatchContract(heap[last.fn.h].path, last.args, heap[last.fn.h].path = <<>>)

\* C7 amended: the same, where the own path counts as empty exactly when its
\* dotted form is the empty string
C7_WatchNameByDottedPath ==
    WatchCalled =>
        WatchContract(heap[last.fn.h].path, last.args, Join(heap[last.fn.h].path) = "")

\* a list of names was watched, with an option, from a handle below the root
C7_Witness ==
    /\ WatchCalled
    /\ heap[last.fn.h].path = <<"list", "0">>
    /\ NameOf(last.args) = List(<<"0", "action">>)
    /\ calls[1].args.name = List(<<"list.0.0", "list.0.action">>)
    /\ calls[1].args.exact = Bool(TRUE)

\* the latest operation is a call of the $setValue of a handle
SetValueCalled == last.op = "call" /\ last.fn.op = "$setValue"


\* the step is a call of $setValue on the handle h: the fields outside its
\* path are left as they were
OthersKept(h) ==
    (SetValueCalled' /\ last'.fn.h = h) =>
        \A q \in DOMAIN ValuesOf(h) \ {heap[h].path} :
            /\ q \in DOMAIN ValuesOf(h)'
            /\ ValuesOf(h)'[q] = ValuesOf(h)[q]

\* the step is a call of $useWatch without a name, right after a call of
\* $setValue on the handle h: the handle's own $useWatch yields the value set,
\* the root's $useWatch the whole shape with that value at the handle's path
ReadBack(h) ==
    (SetValueCalled /\ last.fn.h = h /\ WatchCalled' /\ last'.args = Undefined) =>
        /\ last'.fn.h = h => last'.val = last.args
        /\ heap[last'.fn.h].path = <<>> =>
              /\ last'.val.t = "object"
              /\ heap[h].path \in DOMAIN last'.val.m
              /\ Str(last'.val.m[heap[h].path]) = last.args

\* C8 as stated: for a handle at a non-empty sequence P, $setValue(v) and then
\* the $useWatch of the same handle yields v, and the root's $useWatch yields
\* the whole shape with v at P and every other field unchanged
C8_SetThenWatch ==
    [][\A h \in 1..Len(heap) :
          heap[h].path # <<>> => (OthersKept(h) /\ ReadBack(h))]_vars

\* C8 amended: the same for a handle at a non-empty path of non-empty segments
C8_SetThenWatchNamedSegments ==
    [][\A h \in 1..Len(heap) :
          (heap[h].path # <<>> /\ \A i \in 1..Len(heap[h].path) : heap[h].path[i] # "")
              => (OthersKept(h) /\ ReadBack(h))]_vars

\* the root's $useWatch read, right after a set on an element of the list, the
\* value set and the first name the form had before
C8_Witness ==
    /\ WatchCalled
    /\ heap[last.fn.h].path = <<>>
    /\ last.args = Undefined
    /\ last.val.t = "object"
    /\ \E q \in DOMAIN last.val.m : Len(q) = 3 /\ last.val.m[q] = "Joe"
    /\ <<"firstName">> \in DOMAIN last.val.m
    /\ last.val.m[<<"firstName">>] = "John"

\* the step registers the first input of the field of the handle h: the input
\* shows the default value configured for the handle's path
ShowsDefault(h) ==
    (last'.op = "invoke" /\ last'.h = h /\ last'.threw = NoError
        /\ h \notin DOMAIN inputs) =>
        inputs'[h].text =
            GetPath(engines[heap[h].methods].defaultValues, heap[h].path)

\* the submit handler is handed data that holds, at the path of every handle
\* an input was registered by, the content of that input
SubmitsContent ==
    (last.op = "submit" /\ last.data # Undefined) =>
        \A h \in DOMAIN inputs : GetPath(last.data.m, heap[h].path) = inputs[h].text

\* C9: the input registered by invoking the handle at P first shows the
\* default value of P, and a submission hands the handler data whose value at
\* P is what the user left in the input, for every registered field
C9_TwoWayBinding ==
    [][(\A h \in 1..Len(heap) : ShowsDefault(h)) /\ SubmitsContent']_vars

\* a submission after the user typed into the input of a list element, with
\* the input of the first name registered as well
C9_Witness ==
    /\ last.op = "submit"
    /\ last.data # Undefined
    /\ \E g, h \in DOMAIN inputs :
          /\ heap[g].path = <<"firstName">>
          /\ Len(heap[h].path) = 3
          /\ inputs[h].text = Str("Joe")
          /\ GetPath(last.data.m, heap[h].path) = Str("Joe")

\* the latest operation is a call of the $useFieldArray of a handle
FieldArrayCalled == last.op = "call" /\ last.fn.op = "$useFieldArray"

\* the handles a field-array call has handed out so far
ElementHandles == {g \in 1..Len(heap) : heap[g].key # NoKey}

\* what g.$key yields
ElementKey(g) == KeyOrPath(heap[g].key, currentPath(g))

\* a field-array call yields one handle per element the array holds, in element
\* order, the handle at index i at the path of the i-th element
OneHandlePerElement ==
    FieldArrayCalled =>
        LET P == heap[last.fn.h].path
            fs == last.val.fields
        IN
        /\ Len(fs) = ArrayLength(ValuesOf(last.fn.h), P)
        /\ \A i \in 1..Len(fs) :
              /\ fs[i].t = "handle"
              /\ fs[i].id \in ElementHandles
              /\ heap[fs[i].id].path = Append(P, ToString(i - 1))

\* the handles of one element carry one key in every call, the handles of two
\* elements carry two
KeysTellElements ==
    \A g, h \in ElementHandles :
        heap[g].path = heap[h].path <=> ElementKey(g) = ElementKey(h)

\* the $useWatch of an element handle, called without a name, reads the
\* values of its element
ReadsElement ==
    (WatchCalled /\ last.fn.h \in ElementHandles /\ last.args = Undefined) =>
        LET q == heap[last.fn.h].path \o <<"action">> IN
        /\ q \in DOMAIN ValuesOf(last.fn.h)
        /\ last.val = Obj([r \in {<<"action">>} |-> ValuesOf(last.fn.h)[q]])

\* the step appends one element to the array named `list`
AppendAddsOne ==
    last'.op = "append" =>
        ArrayLength(engines'[last'.e].values, <<"list">>)
            = ArrayLength(engines[last'.e].values, <<"list">>) + 1

\* C10: the field-array operation yields exactly as many element handles as
\* the array holds elements, in element order, each reading its element's
\* values, with pairwise distinct stable keys; an append adds one element,
\* whose handle carries a key no earlier handle carried
C10_FieldArrayHandles ==
    [][AppendAddsOne /\ OneHandlePerElement' /\ KeysTellElements' /\ ReadsElement']_vars

\* a call that yields two handles, the second for an appended element, after
\* an earlier call yielded one
C10_Witness ==
    /\ FieldArrayCalled
    /\ Len(last.val.fields) = MaxElems
    /\ engines[1].values # engines[1].defaultValues
    /\ Cardinality(ElementHandles) > MaxElems

\* the element handles: the handles no cache holds, the roots apart
ProducedAsElement(g) ==
    /\ heap[g].path # <<>>
    /\ \A h \in 1..Len(heap) : \A p \in DOMAIN heap[h].cache :
          heap[h].cache[p] # HandleRef(g)

\* what the field-array primitive returns, in the state after the call, for
\* the arguments the latest operation called it with
RawFieldArray == RhfUseFieldArray(engines[calls[1].args.control.e], calls[1].args).ret

\* C11: $useFieldArray on a handle at P calls the field-array primitive with
\* name = P and key field name '$key' whatever the caller's options; the i-th
\* element handle has path P + [i] and carries the key of the i-th raw
\* element; the other members of the primitive's result are returned unchanged
C11_FieldArrayFixedName ==
    FieldArrayCalled =>
        LET P == heap[last.fn.h].path
            fs == last.val.fields
        IN
        /\ Len(calls) = 1
        /\ calls[1].prim = "useFieldArray"
        /\ calls[1].args.name = Str(Join(P))
        /\ calls[1].args.keyName = Str("$key")
        /\ Len(fs) = Len(RawFieldArray.fields)
        /\ \A i \in 1..Len(fs) :
              /\ heap[fs[i].id].path = Append(P, ToString(i - 1))
              /\ heap[fs[i].id].key = RawFieldArray.fields[i][calls[1].args.keyName.s]
        /\ last.val.append = RawFieldArray.append

\* the id the engine keeps for the element an element handle g stands for
StableKey(g) ==
    LET P == SubSeq(heap[g].path, 1, Len(heap[g].path) - 1)
        i == CHOOSE k \in 0..MaxElems : ToString(k) = heap[g].path[Len(heap[g].path)]
    IN Str(engines[heap[g].methods].ids[Join(P)][i + 1])

\* C12: $key yields the stable element key exactly when the handle was
\* produced as an element by the field-array operation, and the handle's
\* dotted path otherwise, also for a child reached from an element handle
C12_KeyOfElementElsePath ==
    (last.op = "get" /\ last.prop = "$key") =>
        last.val = IF ProducedAsElement(last.h) THEN StableKey(last.h)
                   ELSE Str(Join(heap[last.h].path))

DiscriminateCalled == last.op = "call" /\ last.fn.op = "$discriminate"

UseStateCalled == last.op = "call" /\ last.fn.op = "$useState"

\* the step is a call of $useState: the form-state primitive is called with
\* the handle's path and the control of its tree, and the result holds the
\* errors and the dirty marks the engine keeps at that path, nothing else
StateContract ==
    UseStateCalled' =>
        LET h == last'.fn.h
            P == heap[h].path
            eng == engines[heap[h].methods]
        IN
        /\ Len(calls') = 1
        /\ calls'[1].prim = "useFormState"
        /\ calls'[1].args.name = Str(Join(P))
        /\ calls'[1].args.control = Control(heap[h].methods)
        /\ DOMAIN last'.val = {"errors", "dirty"}
        /\ P # <<>> =>
              /\ last'.val.errors = GetPath(eng.errors, P)
              /\ last'.val.dirty = GetPath(DirtyFields(eng), P)

\* the step is a call of $useState on a handle at P right after a submission:
\* if the required field at P is empty the call reports an error and the
\* field as dirty, and if P is one of the paths `clean` tells it reports no error
AfterSubmit(clean(_)) ==
    (last.op = "submit" /\ UseStateCalled' /\ heap[last'.fn.h].path # <<>>) =>
        LET P == heap[last'.fn.h].path
            invalid == {StringToPath(n) : n \in Invalid(engines[heap[last'.fn.h].methods])}
        IN
        /\ P \in invalid =>
              /\ last'.val.errors # Undefined
              /\ last'.val.dirty = Str("true")
        /\ (P \notin invalid /\ clean(P)) => last'.val.errors = Undefined

AnyPath(P) == TRUE

\* P leads to no field that is required and empty
AboveNoEmptied(P) ==
    \A n \in Invalid(engines[1]) : ~IsPrefix(P, StringToPath(n))

\* C14 as stated: $useState on a handle at P calls the form-state primitive
\* with name = P and the tree's control whatever the options, and returns only
\* the errors and the dirty mark at P; after a required field was emptied and
\* the form submitted, its handle reports an error and dirty, and a handle at
\* any other field path reports no error
C14_StateOfFieldOnly == [][StateContract /\ AfterSubmit(AnyPath)]_vars

\* C14 amended: the same, where the handles that report no error are those at
\* the other paths that lead to no emptied required field
C14_StateOfFieldAndBelow == [][StateContract /\ AfterSubmit(AboveNoEmptied)]_vars

\* the first name was cleared and the form submitted: the handle of the first
\* name reports the error and the dirty mark
C14_Witness ==
    /\ UseStateCalled
    /\ heap[last.fn.h].path = <<"firstName">>
    /\ last.val.errors = Str("required")
    /\ last.val.dirty = Str("true")
    /\ engines[1].values[<<"firstName">>] = ""

ControllerCalled == last.op = "call" /\ last.fn.op = "$useController"

\* C15: $useController on a handle at P calls the controller primitive with
\* name = P and the tree's control whatever the caller's options, and hands it
\* the caller's other options as given
C15_ControllerFixedName ==
    ControllerCalled =>
        LET h == last.fn.h
            given == IF last.args = Undefined THEN <<>> ELSE last.args.m
        IN
        /\ Len(calls) = 1
        /\ calls[1].prim = "useController"
        /\ calls[1].args.name = Str(Join(heap[h].path))
        /\ calls[1].args.control = Control(heap[h].methods)
        /\ \A k \in DOMAIN given \ {"name", "control"} : calls[1].args[k] = given[k]

\* the latest operation called what a handle yielded under $setFocus
FocusCalled ==
    /\ last.op = "invoke"
    /\ heap[last.h].path # <<>>
    /\ heap[last.h].path[Len(heap[last.h].path)] = "$setFocus"

\* C16: what a handle at P yields under $setFocus, called with options, calls
\* the engine's setFocus with name = P and those options and registers no field
C16_SetFocusBound ==
    FocusCalled =>
        LET P == SubSeq(heap[last.h].path, 1, Len(heap[last.h].path) - 1) IN
        /\ Len(calls) = 1
        /\ calls[1].prim = "setFocus"
        /\ calls[1].args = <<Str(Join(P)), last.options>>
        /\ DOMAIN engines[heap[last.h].methods].fields = {}

PassCalled == last.op = "call" /\ last.fn.op \in {"$setValue", "$setError"}

\* C17: $setValue(v) and $setError(error, options) on a handle at P call the
\* engine's setValue(P, v) and setError(P, error, options) once, with the
\* arguments as given, on the root handle too; they raise nothing of their
\* own, and what the engine raises reaches the caller as raised
C17_PassThrough ==
    PassCalled =>
        LET h == last.fn.h
            P == heap[h].path
        IN
        /\ Len(calls) = 1
        /\ calls[1].e = heap[h].methods
        /\ last.fn.op = "$setValue" =>
              /\ calls[1].prim = "setValue"
              /\ calls[1].args = <<Str(Join(P)), last.args>>
        /\ last.fn.op = "$setError" =>
              /\ calls[1].prim = "setError"
              /\ calls[1].args = <<Str(Join(P)), last.args[1], last.args[2]>>
        /\ last.threw = IF "raised" \in DOMAIN calls[1] THEN calls[1].raised ELSE NoError
        /\ last.threw # RootError

\* the root handle set an error with options, and nothing was raised
C17_Witness ==
    /\ PassCalled
    /\ last.fn.op = "$setError"
    /\ heap[last.fn.h].path = <<>>
    /\ last.args[2] # Undefined
    /\ last.threw = NoError
    /\ calls[1].args[1] = Str("")

Rendered == last.op = "render"

\* after a render, the root handle it returned is the one derived last
ReturnsNewestRoot ==
    Rendered' =>
        /\ last'.val.fields.t = "handle"
        /\ last'.val.fields.id \in Roots'
        /\ \A g \in Roots' : g <= last'.val.fields.id

\* a step derives a root handle only if it is a render in which the engine
\* instance is not the one of the render before, and such a render derives one
DerivedOnChange ==
    /\ ~Rendered' => Roots' = Roots
    /\ (Rendered /\ Rendered') =>
          (last'.val.fields = last.val.fields <=> last'.methods = last.methods)
    /\ (Rendered /\ Rendered' /\ last'.methods # last.methods) =>
          /\ last'.val.fields.id \notin 1..Len(heap)
          /\ Roots' = Roots \cup {last'.val.fields.id}
    /\ (Rendered /\ Rendered' /\ last'.methods = last.methods) => Roots' = Roots

\* C18: over the renders of useFormBuilder, the root handle returned is the
\* one of the render before when useForm returned the same instance, and a
\* new root handle is derived only in a render where the instance has changed
C18_RootKeptPerEngine == [][ReturnsNewestRoot /\ DerivedOnChange]_vars

\* a render with the second engine instance returned the root handle derived
\* for it in an earlier render, below which the tree has grown since
C18_Witness ==
    /\ Rendered
    /\ last.methods = 2
    /\ Cardinality(Roots) = 2
    /\ DOMAIN heap[last.val.fields.id].cache # {}

\* C19: what useFormBuilder returns holds the root handle under `fields` and
\* every member of what useForm returned, each with the value useForm gave
\* it, and the root handle is bound to that engine instance
C19_ReturnsFieldsAndMethods ==
    Rendered =>
        LET methods == UseFormReturn(last.methods) IN
        /\ DOMAIN last.val = {"fields"} \cup DOMAIN methods
        /\ last.val.fields.t = "handle"
        /\ heap[last.val.fields.id].path = <<>>
        /\ heap[last.val.fields.id].methods = last.methods
        /\ \A name \in DOMAIN methods : last.val[name] = methods[name]

\* a render with the second engine instance returned its root handle beside
\* that instance's setValue
C19_Witness ==
    /\ Rendered
    /\ last.methods = 2
    /\ last.val.fields = HandleRef(Memo)
    /\ last.val.setValue.e = 2
    /\ last.val.control = Control(2)

\* the handles and the operation closures the cache of the handle h holds
CachedHandles(h) ==
    {heap[h].cache[p].id : p \in {q \in DOMAIN heap[h].cache : heap[h].cache[q].t = "handle"}}

CachedFns(h) ==
    {heap[h].cache[p] : p \in {q \in DOMAIN heap[h].cache : heap[h].cache[q].t = "fn"}}

RECURSIVE ReachFrom(_)
\* the handles reachable from the handles S by property reads
ReachFrom(S) ==
    LET T == S \cup UNION {CachedHandles(h) : h \in S} IN
    IF T = S THEN S ELSE ReachFrom(T)

Reach(r) == ReachFrom({r})

FnsUnder(r) == UNION {CachedFns(h) : h \in Reach(r)}

\* the trees share no handle and no operation closure, and every handle of a
\* tree is bound to the engine instance of its root
Isolated ==
    /\ \A r1, r2 \in Roots :
          r1 # r2 => /\ Reach(r1) \cap Reach(r2) = {}
                     /\ FnsUnder(r1) \cap FnsUnder(r2) = {}
    /\ \A r \in Roots : \A h \in Reach(r) : heap[h].methods = heap[r].methods

\* a render binds the root it returns to the engine instance of that render;
\* a call of an operation reaches the engine instance of the root it was
\* read under, and leaves every other instance as it was
ForwardsToOwn ==
    /\ Rendered' => heap'[last'.val.fields.id].methods = last'.methods
    /\ last'.op = "call" =>
          LET r == CHOOSE r \in Roots : last'.fn \in FnsUnder(r) IN
          /\ \E q \in Roots : last'.fn \in FnsUnder(q)
          /\ calls'[1].e = heap[r].methods
          /\ \A e \in 1..Len(engines) : e # heap[r].methods => engines'[e] = engines[e]

\* C20: the tree derived for a new engine instance shares no handle and no
\* operation closure with the tree before it, every operation read under the
\* new root reaches the new instance, and the operations of the old tree keep
\* reaching the old one
C20_TreesIsolated == [][Isolated' /\ ForwardsToOwn]_vars

\* a value was set through the tree of the second engine instance while the
\* first tree holds an operation of its own: only the second instance changed
C20_Witness ==
    /\ last.op = "call"
    /\ heap[last.fn.h].methods = 2
    /\ calls[1].e = 2
    /\ \E f \in Closures : heap[f.h].methods = 1
    /\ engines[2].values # engines[2].defaultValues
    /\ engines[1].values = engines[1].defaultValues

\* C21: a property read on a handle calls no engine primitive and leaves the
\* engines and the inputs as they were; it adds at most one entry to the cache
\* of that handle, changes no entry the cache held, and leaves every other
\* handle as it was; a handle it creates starts with an empty cache
C21_AccessFrame ==
    [][last'.op = "get" =>
          LET h == last'.h IN
          /\ calls' = <<>>
          /\ engines' = engines
          /\ inputs' = inputs
          /\ \A g \in 1..Len(heap) : g # h => heap'[g] = heap[g]
          /\ heap'[h].path = heap[h].path
          /\ heap'[h].methods = heap[h].methods
          /\ \A p \in DOMAIN heap[h].cache :
                p \in DOMAIN heap'[h].cache /\ heap'[h].cache[p] = heap[h].cache[p]
          /\ Cardinality(DOMAIN heap'[h].cache \ DOMAIN heap[h].cache) <= 1
          /\ \A g \in (Len(heap) + 1)..Len(heap') : heap'[g].cache = <<>>]_vars

\* an operation was read on a handle whose cache held an entry already, while
\* another handle holds entries of its own
C21_Witness ==
    /\ last.op = "get"
    /\ last.val.t = "fn"
    /\ last.val.id = nfn
    /\ Cardinality(DOMAIN heap[last.h].cache) >= 2
    /\ \E g \in 1..Len(heap) : g # last.h /\ DOMAIN heap[g].cache # {}

\* what the $key of the element handle g yields
KeyOfHandle(g) == KeyOrPath(heap'[g].key, Join(heap'[g].path))

\* the step is the $useFieldArray call of the render that follows mutations
\* of the array: the i-th handle stands at own path + [i], and the handle of
\* an element the render before had shown too carries the key it carried then
KeysFollowElements ==
    (last.op = "mutate" /\ FieldArrayCalled' /\ last'.fn = last.from.fn) =>
        LET old == last.from.val.fields
            new == last'.val.fields
            P == heap[last'.fn.h].path
            now == ElementsOf(engines'[heap[last'.fn.h].methods], last.name)
        IN
        /\ Len(new) = Len(now)
        /\ \A j \in 1..Len(new) :
              /\ Join(heap'[new[j].id].path) = Join(P) \o "." \o ToString(j - 1)
              /\ \A i \in 1..Len(old) :
                    last.before[i] = now[j] => KeyOfHandle(new[j].id) = KeyOfHandle(old[i].id)

\* C23: after any sequence of insertions, moves and removals, the element
\* handle $useFieldArray returns for a surviving element has the $key the
\* element's handle had before, and its dotted path ends in the element's
\* current index
C23_KeyFollowsElement == [][KeysFollowElements]_vars

\* C24: every call of $useFieldArray creates its element handles: none of
\* them is a handle that existed before the call, be it the handle an earlier
\* call returned for the index or the child cached under the index; each
\* starts with a cache of its own, and all of them stringify to the same path
C24_FreshElementHandles ==
    [][FieldArrayCalled' =>
          LET h == last'.fn.h
              new == last'.val.fields
          IN
          \A i \in 1..Len(new) :
             /\ new[i].id \notin 1..Len(heap)
             /\ \A j \in 1..Len(new) : new[j] = new[i] => j = i
             /\ \A g \in 1..Len(heap') : \A p \in DOMAIN heap'[g].cache :
                   heap'[g].cache[p] # new[i]
             /\ heap'[new[i].id].cache = <<>>
             /\ Join(heap'[new[i].id].path) = Join(Append(heap[h].path, ToString(i - 1)))
             /\ ToString(i - 1) \in DOMAIN heap[h].cache =>
                   /\ heap[h].cache[ToString(i - 1)] # new[i]
                   /\ Join(heap[heap[h].cache[ToString(i - 1)].id].path)
                         = Join(heap'[new[i].id].path)]_vars

\* a call returned a handle for the first element while the child cached under
\* index 0 and the handle an earlier call returned stand at the same path
C24_Witness ==
    /\ FieldArrayCalled
    /\ Len(last.val.fields) >= 1
    /\ "0" \in DOMAIN heap[last.fn.h].cache
    /\ Cardinality({g \in 1..Len(heap) :
                       heap[g].path = heap[last.val.fields[1].id].path}) >= 3

\* the name an engine primitive was called with
NameOfCall(c) ==
    IF c.prim \in {"register", "setValue", "setError", "watch"} THEN c.args[1]
    ELSE c.args.name

\* the string s starts with the string pre
StartsWith(s, pre) == Len(s) >= Len(pre) /\ SubSeq(s, 1, Len(pre)) = pre

\* the name, or every name of the list, is the dotted path own or lies below it
Confined(name, own) ==
    IF name.t = "string" THEN name.s = own \/ StartsWith(name.s, own \o ".")
    ELSE IF name.t = "array"
    THEN \A i \in DOMAIN name.xs : StartsWith(name.xs[i], own \o ".")
    ELSE FALSE

\* the options of the latest call carry no name and no control that would
\* replace the handle's; the name $useWatch takes is relative
NoOverride ==
    \/ last.op = "invoke"
    \/ last.fn.op \notin {"$useController", "$useFieldArray", "$useState", "$useWatch"}
    \/ last.args = Undefined
    \/ DOMAIN last.args.m \cap (IF last.fn.op = "$useWatch" THEN {"control"}
                                 ELSE {"name", "control"}) = {}

\* every engine call of the latest operation of a handle whose path `applies`
\* names the handle's dotted path or a path below it
ConfinedCalls(applies(_)) ==
    (last.op \in {"call", "invoke"} /\ calls # <<>>) =>
        LET P == heap[IF last.op = "invoke" THEN last.h ELSE last.fn.h].path IN
        (applies(P) /\ NoOverride) =>
            \A i \in 1..Len(calls) : Confined(NameOfCall(calls[i]), Join(P))

NotRootPath(P) == P # <<>>

NamedPath(P) == Join(P) # ""

\* C25 as stated: for a handle at a non-empty sequence P and options without
\* name and control, every engine call of every operation uses a name that is
\* P joined or starts with P joined and '.'
C25_Confined == ConfinedCalls(NotRootPath)

\* C25 amended: the same for a handle whose dotted path is not empty
C25_ConfinedNamedPath == ConfinedCalls(NamedPath)

\* the handle of the first name watched a member below it
C25_Witness ==
    /\ last.op = "call"
    /\ last.fn.op = "$useWatch"
    /\ heap[last.fn.h].path = <<"firstName">>
    /\ last.args # Undefined
    /\ "name" \in DOMAIN last.args.m
    /\ calls[1].args.name = Str("firstName.action")

\* the cache entries that are handles, over all handles
CachedChildren ==
    {hp \in (1..Len(heap)) \X (ChildKeys \cup ReservedNames) :
        /\ hp[2] \in DOMAIN heap[hp[1]].cache
        /\ heap[hp[1]].cache[hp[2]].t = "handle"}

\* C26: the first read of a child key on a handle creates exactly one handle,
\* which starts without children, and a repeated read creates none, so there
\* are no more handles than the root and the child keys read; and when
\* invoking the root throws, the handles, their caches, the engines and the
\* inputs are as before, and later reads on the root behave as any read
C26_LazyAndNoTrace ==
    [][/\ (last'.op = "get" /\ last'.prop \notin SpecReservedNames) =>
             IF last'.prop \in DOMAIN heap[last'.h].cache
             THEN heap' = heap
             ELSE /\ Len(heap') = Len(heap) + 1
                  /\ heap'[Len(heap')].cache = <<>>
                  /\ last'.val = HandleRef(Len(heap'))
       /\ Len(heap') <= 1 + Cardinality(CachedChildren')
       /\ (last'.op = "invoke" /\ last'.threw = RootError) =>
             /\ heap' = heap
             /\ engines' = engines
             /\ inputs' = inputs]_vars

====
